---- MODULE Spec2Model ----
(***************************************************************************)
(* dtproton: src/main.rs.  One workbook is parsed twice (a write view,     *)
(* `book`, and a read view, `workbook`); when cell A3 of the active sheet  *)
(* is the marker text, every cell from row 6 on whose text contains "(RM)" *)
(* or "(C)" is cleared in the write view, which is saved as                *)
(* processed_<name>.                                                        *)
(*                                                                         *)
(* Text is a sequence of Unicode code points (a Rust String), so that      *)
(* trimming, pattern matching and address formatting are computed and not  *)
(* assumed.                                                                *)
(***************************************************************************)
EXTENDS Integers, Sequences, FiniteSets, TLC

VARIABLES
    pc,                  \* position of main / real_main / process_excel
    file,                \* the workbook file at the input path
    rerun,               \* TRUE once the tool is run on its own output
    book,                \* write view (umya_spreadsheet), line 53
    active_sheet_index,  \* line 55
    workbook,            \* read view (calamine), line 57
    sheet_name,          \* line 59
    range,               \* line 65
    to_clear,            \* line 89
    output,              \* the file at processed_<name>, line 116
    result,              \* what process_excel / real_main returned
    exit_code,           \* process exit status
    c_in, c_row,         \* cell_ref's arguments col_1_based and row_1_based, line 7
    c_col, c_name,       \* col_to_name's col and name, lines 8-16
    c_ref,               \* the String cell_ref returns, line 19
    c_pc                 \* position in cell_ref / col_to_name

vars == <<pc, file, rerun, book, active_sheet_index, workbook, sheet_name,
          range, to_clear, output, result, exit_code,
          c_in, c_row, c_col, c_name, c_ref, c_pc>>

runVars == <<pc, file, rerun, book, active_sheet_index, workbook, sheet_name,
             range, to_clear, output, result, exit_code>>

codecVars == <<c_in, c_row, c_col, c_name, c_ref, c_pc>>

-----------------------------------------------------------------------------
(* Bounds of the model.                                                    *)

MaxHeight == 7      \* tallest grid
MaxWidth == 3       \* widest grid
MaxSheets == 2      \* most sheets in a workbook
MaxCol == 702       \* largest column number given to col_to_name
MaxRowNum == 11     \* largest row number given to cell_ref

-----------------------------------------------------------------------------
(* Text.                                                                   *)

Reverse(s) == [i \in 1..Len(s) |-> s[Len(s) + 1 - i]]

\* Unicode White_Space, what str::trim removes.
WhiteSpace == {9, 10, 11, 12, 13, 32, 133, 160, 5760, 8232, 8233, 8239, 8287, 12288}
                  \cup (8192..8202)

RECURSIVE TrimStart(_)
TrimStart(s) ==
    IF s /= <<>> /\ Head(s) \in WhiteSpace THEN TrimStart(Tail(s)) ELSE s

Trim(s) == Reverse(TrimStart(Reverse(TrimStart(s))))

\* Whether sub occurs in s as a contiguous substring.
Contains(s, sub) ==
    \E i \in 1..(Len(s) - Len(sub) + 1) : SubSeq(s, i, i + Len(sub) - 1) = sub

\* Decimal digits of n >= 0, most significant first.
RECURSIVE Digits(_)
Digits(n) == IF n < 10 THEN <<48 + n>> ELSE Append(Digits(n \div 10), 48 + (n % 10))

\* i.to_string() of an integer.
IntToString(n) == IF n < 0 THEN <<45>> \o Digits(0 - n) ELSE Digits(n)

\* Value of a string of decimal digits.
RECURSIVE ParseDigits(_)
ParseDigits(s) ==
    IF s = <<>> THEN 0
    ELSE 10 * ParseDigits(SubSeq(s, 1, Len(s) - 1)) + (s[Len(s)] - 48)

-----------------------------------------------------------------------------
(* cell_ref and col_to_name, lines 7-20.                                   *)

\* Line 12-13: the letter pushed for col.
NextLetter(col) == 65 + ((col - 1) % 26)

\* Line 14: what is left of col.
RestOfColNoBorrow(col) == col \div 26
RestOfCol(col) == (col - 1) \div 26

\* col_to_name's loop, lines 11-15: the letters pushed, least significant first.
RECURSIVE PushedLetters(_)
PushedLetters(col) ==
    IF col > 0
    THEN <<NextLetter(col)>> \o PushedLetters(RestOfCol(col))
    ELSE <<>>

\* Lines 8-17.
col_to_name(col) == Reverse(PushedLetters(col))

\* Line 19.
cell_ref(col_1_based, row_1_based) ==
    col_to_name(col_1_based) \o IntToString(row_1_based)

\* The standard decoding of column letters: bijective base 26, A = 1 .. Z = 26.
RECURSIVE lettersToColumn(_)
lettersToColumn(s) ==
    IF s = <<>> THEN 0
    ELSE 26 * lettersToColumn(SubSeq(s, 1, Len(s) - 1)) + (s[Len(s)] - 64)

IsLetter(ch) == ch \in 65..90

RECURSIVE LetterPrefixLen(_)
LetterPrefixLen(s) ==
    IF s /= <<>> /\ IsLetter(Head(s)) THEN 1 + LetterPrefixLen(Tail(s)) ELSE 0

\* How the write view reads an address: <<column, row>>, both 1-based.
ParseCellRef(addr) ==
    LET k == LetterPrefixLen(addr)
    IN  <<lettersToColumn(SubSeq(addr, 1, k)), ParseDigits(SubSeq(addr, k + 1, Len(addr)))>>

-----------------------------------------------------------------------------
(* calamine::Data and datatype_to_string, lines 22-40.                     *)
(* A value is [tag, s, n]: s the text of the textual variants, n the       *)
(* number of the numeric ones (Float and DateTime in tenths, Bool 0 or 1,  *)
(* Error the index of its variant in ErrorDebug).                          *)

DEmpty == [tag |-> "Empty", s |-> <<>>, n |-> 0]
DString(s) == [tag |-> "String", s |-> s, n |-> 0]
DFloat(tenths) == [tag |-> "Float", s |-> <<>>, n |-> tenths]
DInt(i) == [tag |-> "Int", s |-> <<>>, n |-> i]
DBool(b) == [tag |-> "Bool", s |-> <<>>, n |-> IF b THEN 1 ELSE 0]
DDateTime(tenths) == [tag |-> "DateTime", s |-> <<>>, n |-> tenths]
DDateTimeIso(s) == [tag |-> "DateTimeIso", s |-> s, n |-> 0]
DDurationIso(s) == [tag |-> "DurationIso", s |-> s, n |-> 0]
DError(e) == [tag |-> "Error", s |-> <<>>, n |-> e]

\* Debug names of the error variants: "Div0", "NA".
ErrorDebug == << <<68, 105, 118, 48>>, <<78, 65>> >>

Abs(n) == IF n < 0 THEN 0 - n ELSE n

\* f.to_string() of a float given in tenths.
FloatToString(tenths) ==
    IF tenths % 10 = 0
    THEN IntToString(tenths \div 10)
    ELSE (IF tenths < 0 THEN <<45>> ELSE <<>>)
             \o Digits(Abs(tenths) \div 10) \o <<46>> \o Digits(Abs(tenths) % 10)

datatype_to_string(v) ==
    CASE v.tag = "Empty" -> <<>>
      [] v.tag = "String" -> v.s
      [] v.tag = "Float" ->
            IF v.n % 10 = 0 THEN IntToString(v.n \div 10) ELSE FloatToString(v.n)
      [] v.tag = "Int" -> IntToString(v.n)
      [] v.tag = "Bool" ->
            IF v.n = 1 THEN <<116, 114, 117, 101>> ELSE <<102, 97, 108, 115, 101>>
      [] v.tag = "DateTime" -> FloatToString(v.n)
      [] v.tag = "DateTimeIso" -> v.s
      [] v.tag = "DurationIso" -> v.s
      [] v.tag = "Error" -> ErrorDebug[v.n]

-----------------------------------------------------------------------------
(* Workbooks.  A file is [active_tab, sheets], a sheet [name, height,      *)
(* width, cells].  The read view addresses cells by 0-based <<row, col>>,  *)
(* the write view by 1-based <<col, row>>.                                 *)

None == <<>>
Some(x) == <<x>>

MarkerRow == 2
MarkerCol == 0
MinHeight == 6
ScanStartRow == 5

\* "离子色谱"
Marker == <<31163, 23376, 33394, 35889>>
\* "其他"
OtherText == <<20854, 20182>>
\* "Cl(RM)", "SO4(C)", and the near miss "(RMC)"
ClRM == <<67, 108, 40, 82, 77, 41>>
SO4C == <<83, 79, 52, 40, 67, 41>>
NearMiss == <<40, 82, 77, 67, 41>>

Pos(h, w) == (0..(h - 1)) \X (0..(w - 1))

\* A grid whose cells are empty but for the marker cell and two others
\* (p1 before p2 where they coincide).
Grid(h, w, m, p1, v1, p2, v2) ==
    [height |-> h, width |-> w,
     cells  |-> [p \in Pos(h, w) |->
                    IF p = <<MarkerRow, MarkerCol>> THEN m
                    ELSE IF p = p1 THEN v1
                    ELSE IF p = p2 THEN v2
                    ELSE DEmpty]]

EmptyGrid == [height |-> 0, width |-> 0, cells |-> [p \in {} |-> DEmpty]]

Dims == { <<h, w>> \in (1..MaxHeight) \X (1..MaxWidth) : TRUE }

FillVals == {DEmpty, DString(ClRM), DString(SO4C), DString(NearMiss)}

\* Positions from the row before the scanned region on.
FillPos(h, w) == { p \in Pos(h, w) : p[1] >= ScanStartRow - 1 }

\* Every size of grid, the marker cell holding the marker (with a trailing space) or
\* another text, one cell of the band filled at will and the last cell of the grid too.
RichGrids ==
    {EmptyGrid} \cup
    UNION { UNION { IF FillPos(d[1], d[2]) = {}
                    THEN {Grid(d[1], d[2], m, <<0, 0>>, DEmpty, <<0, 0>>, DEmpty)}
                    ELSE { Grid(d[1], d[2], m, q[1], q[2], <<d[1] - 1, d[2] - 1>>, q[3]) :
                             q \in FillPos(d[1], d[2]) \X FillVals \X FillVals }
                  : m \in {DString(Marker \o <<32>>), DString(OtherText)} }
          : d \in Dims }

\* Marker cells of every variant, in the grid of the end-to-end scenario.
MarkerVals ==
    { DEmpty, DString(<<>>), DString(Marker), DString(OtherText), DString(<<12288, 32>> \o Marker \o <<9>>),
      DString(Marker \o OtherText), DString(<<31163, 32, 23376, 33394, 35889>>),
      DFloat(50), DFloat(55), DInt(0 - 12), DBool(TRUE), DBool(FALSE),
      DDateTime(450005), DDateTimeIso(Marker), DDurationIso(<<80, 84, 49, 72>>),
      DError(1), DError(2) }

ScenarioGrid(m) ==
    Grid(MaxHeight, MaxWidth, m, <<MaxHeight - 2, 1>>, DString(ClRM),
         <<MaxHeight - 1, MaxWidth - 1>>, DString(SO4C))

MarkerGrids == { ScenarioGrid(m) : m \in MarkerVals }

SheetNameOf(k) == <<83>> \o Digits(k)

Sheet(k, g) ==
    [name |-> SheetNameOf(k), height |-> g.height, width |-> g.width, cells |-> g.cells]

\* Workbooks of one sheet.
OneSheetFiles ==
    { [active_tab |-> 0, sheets |-> <<Sheet(1, g)>>] : g \in RichGrids \cup MarkerGrids }

\* Workbooks of 0..MaxSheets sheets and any active tab, each sheet one of two grids.
TabGrids ==
    { Grid(MinHeight, 2, DString(Marker), <<ScanStartRow, 0>>, DString(SO4C),
           <<ScanStartRow, 1>>, DFloat(55)),
      Grid(MinHeight + 1, 1, DString(Marker), <<ScanStartRow + 1, 0>>, DString(ClRM),
           <<0, 0>>, DString(SO4C)) }

TabFiles ==
    UNION { { [active_tab |-> t, sheets |-> [k \in 1..n |-> Sheet(k, gs[k])]] :
                gs \in [1..n -> TabGrids], t \in 0..MaxSheets }
          : n \in 0..MaxSheets }

Files == OneSheetFiles \cup TabFiles

-----------------------------------------------------------------------------
(* The two parses and the steps of process_excel, lines 50-120.            *)

\* The write view of a sheet: its cells by 1-based <<col, row>>.
BookSheet(sh) ==
    [name |-> sh.name, height |-> sh.height, width |-> sh.width,
     cells |-> [q \in (1..sh.width) \X (1..sh.height) |-> sh.cells[<<q[2] - 1, q[1] - 1>>]]]

\* umya_spreadsheet::reader::xlsx::read, line 53.
ReadXlsx(f) ==
    [active_tab |-> f.active_tab,
     sheets |-> [k \in 1..Len(f.sheets) |-> BookSheet(f.sheets[k])]]

\* The sheet a write view serializes: its cells by 0-based <<row, col>>.
FileSheet(bs) ==
    [name |-> bs.name, height |-> bs.height, width |-> bs.width,
     cells |-> [p \in Pos(bs.height, bs.width) |-> bs.cells[<<p[2] + 1, p[1] + 1>>]]]

\* umya_spreadsheet::writer::xlsx::write, line 116.
WriteXlsx(b) ==
    [active_tab |-> b.active_tab,
     sheets |-> [k \in 1..Len(b.sheets) |-> FileSheet(b.sheets[k])]]

\* workbook.sheet_names(), line 58.
SheetNames(wb) == [k \in 1..Len(wb.sheets) |-> wb.sheets[k].name]

\* sheet_names.get(i), 0-based, as an Option.
Get(names, i) == IF i < Len(names) THEN Some(names[i + 1]) ELSE None

\* Lines 59-63: the name at the active index, else the first name, else nothing.
ResolveNoFallback(names, index) == Get(names, index)
ResolveSheetName(names, index) ==
    IF Get(names, index) /= None THEN Get(names, index) ELSE Get(names, 0)

\* workbook.worksheet_range(&sheet_name), line 65: the grid of the sheet of that name.
WorksheetRange(wb, name) ==
    LET k == CHOOSE k \in 1..Len(wb.sheets) : wb.sheets[k].name = name
    IN  [height |-> wb.sheets[k].height, width |-> wb.sheets[k].width,
         cells |-> wb.sheets[k].cells]

\* range.get_value((row, col)).map(datatype_to_string).unwrap_or_default(),
\* lines 70-73 and 92-95.
ValueAt(rng, row0, col0) ==
    IF <<row0, col0>> \in DOMAIN rng.cells
    THEN datatype_to_string(rng.cells[<<row0, col0>>])
    ELSE <<>>

\* Line 75: a3.trim() == "离子色谱".
MarkerUntrimmed(rng) == ValueAt(rng, MarkerRow, MarkerCol) = Marker
MarkerMatches(rng) == Trim(ValueAt(rng, MarkerRow, MarkerCol)) = Marker

\* Line 81.
HeightAlwaysEnough(rng) == TRUE
HeightEnough(rng) == ~(rng.height < MinHeight)

\* Lines 86 and 96: the regex \((RM|C)\) matches somewhere in the text.
ReIsMatch(value) ==
    Contains(value, <<40, 82, 77, 41>>) \/ Contains(value, <<40, 67, 41>>)

ShouldClearAnyText(value) == value /= <<>>
ShouldClear(value) == value /= <<>> /\ ReIsMatch(value)

\* The loops of lines 90-100, from position (row0, col0) on, in visiting order.
RECURSIVE ScanFrom(_, _, _)
ScanFrom(rng, row0, col0) ==
    IF row0 >= rng.height THEN <<>>
    ELSE IF col0 >= rng.width THEN ScanFrom(rng, row0 + 1, 0)
    ELSE (IF ShouldClear(ValueAt(rng, row0, col0))
          THEN <<cell_ref(col0 + 1, row0 + 1)>>
          ELSE <<>>) \o ScanFrom(rng, row0, col0 + 1)

CollectToClear(rng) == ScanFrom(rng, ScanStartRow, 0)

\* sheet.get_cell_mut(addr).set_value(""), line 112.
SetValueUnsaved(cells, addr) == cells
SetValueToggle(cells, addr) ==
    [q \in DOMAIN cells |->
        IF q = ParseCellRef(addr)
        THEN (IF cells[q] = DString(<<>>) THEN DString(NearMiss) ELSE DString(<<>>))
        ELSE cells[q]]
SetValueEmpty(cells, addr) ==
    [q \in DOMAIN cells |-> IF q = ParseCellRef(addr) THEN DString(<<>>) ELSE cells[q]]

\* The loop of lines 111-113.
RECURSIVE ClearAll(_, _)
ClearAll(cells, addrs) ==
    IF addrs = <<>> THEN cells
    ELSE ClearAll(SetValueEmpty(cells, Head(addrs)), Tail(addrs))

\* book.get_active_sheet_mut(), line 109: the sheet at the active tab, 1-based here.
ActiveSheet(b) == b.active_tab + 1

\* Lines 109-113 on the whole write view.
ClearBookEverySheet(b, addrs) ==
    [b EXCEPT !.sheets = [k \in 1..Len(b.sheets) |->
                             [b.sheets[k] EXCEPT !.cells = ClearAll(@, addrs)]]]
ClearBook(b, addrs) ==
    [b EXCEPT !.sheets[ActiveSheet(b)].cells = ClearAll(@, addrs)]

-----------------------------------------------------------------------------
(* main, real_main and process_excel as a state machine.                   *)

Errors == {"Err(read)", "Err(open)", "Err(no worksheets)", "Err(range)", "Err(write)"}

\* Lines 123-126: exit status 1 on Err, 0 otherwise.
MainExitCode(res) == IF res \in Errors THEN 1 ELSE 0

RunInit ==
    /\ pc = "start"
    /\ file = None
    /\ rerun = FALSE
    /\ book = None
    /\ active_sheet_index = 0
    /\ workbook = None
    /\ sheet_name = None
    /\ range = None
    /\ to_clear = <<>>
    /\ output = None
    /\ result = "running"
    /\ exit_code = -1

CodecIdle ==
    /\ c_in = 0
    /\ c_row = 0
    /\ c_col = 0
    /\ c_name = <<>>
    /\ c_ref = <<>>
    /\ c_pc = "idle"

Init == RunInit /\ CodecIdle

\* Lines 130-135: no argument, the usage hint, Ok(()).
NoArgument ==
    /\ pc = "start"
    /\ result' = "Ok(())"
    /\ pc' = "returned"
    /\ UNCHANGED <<file, rerun, book, active_sheet_index, workbook, sheet_name,
                   range, to_clear, output, exit_code>>
    /\ UNCHANGED codecVars

\* Lines 132-138: the argument names a workbook file.
GetArgument ==
    /\ pc = "start"
    /\ \E f \in Files : file' = Some(f)
    /\ pc' = "read_book"
    /\ UNCHANGED <<rerun, book, active_sheet_index, workbook, sheet_name,
                   range, to_clear, output, result, exit_code>>
    /\ UNCHANGED codecVars

\* A fatal error: process_excel returns Err by `?`.
Fail(at, err) ==
    /\ pc = at
    /\ result' = err
    /\ pc' = "returned"
    /\ UNCHANGED <<file, rerun, book, active_sheet_index, workbook, sheet_name,
                   range, to_clear, output, exit_code>>
    /\ UNCHANGED codecVars

\* Lines 53-55.
ReadBook ==
    /\ pc = "read_book"
    /\ book' = Some(ReadXlsx(file[1]))
    /\ active_sheet_index' = ReadXlsx(file[1]).active_tab
    /\ pc' = "open_workbook"
    /\ UNCHANGED <<file, rerun, workbook, sheet_name, range, to_clear, output,
                   result, exit_code>>
    /\ UNCHANGED codecVars

ReadBookFails == pc = "read_book" /\ Fail("read_book", "Err(read)")

\* Line 57.
OpenWorkbook ==
    /\ pc = "open_workbook"
    /\ workbook' = file
    /\ pc' = "resolve_sheet"
    /\ UNCHANGED <<file, rerun, book, active_sheet_index, sheet_name, range,
                   to_clear, output, result, exit_code>>
    /\ UNCHANGED codecVars

OpenWorkbookFails == pc = "open_workbook" /\ Fail("open_workbook", "Err(open)")

\* Lines 58-63.
ResolveSheet ==
    /\ pc = "resolve_sheet"
    /\ ResolveSheetName(SheetNames(workbook[1]), active_sheet_index) /= None
    /\ sheet_name' = ResolveSheetName(SheetNames(workbook[1]), active_sheet_index)
    /\ pc' = "worksheet_range"
    /\ UNCHANGED <<file, rerun, book, active_sheet_index, workbook, range,
                   to_clear, output, result, exit_code>>
    /\ UNCHANGED codecVars

NoWorksheets ==
    /\ pc = "resolve_sheet"
    /\ ResolveSheetName(SheetNames(workbook[1]), active_sheet_index) = None
    /\ Fail("resolve_sheet", "Err(no worksheets)")

\* Lines 65-67.
ReadRange ==
    /\ pc = "worksheet_range"
    /\ range' = Some(WorksheetRange(workbook[1], sheet_name[1]))
    /\ pc' = "check_marker"
    /\ UNCHANGED <<file, rerun, book, active_sheet_index, workbook, sheet_name,
                   to_clear, output, result, exit_code>>
    /\ UNCHANGED codecVars

ReadRangeFails == pc = "worksheet_range" /\ Fail("worksheet_range", "Err(range)")

\* An early return Ok(None), lines 77 and 83.
ReturnNone(at) ==
    /\ pc = at
    /\ result' = "Ok(None)"
    /\ pc' = "returned"
    /\ UNCHANGED <<file, rerun, book, active_sheet_index, workbook, sheet_name,
                   range, to_clear, output, exit_code>>
    /\ UNCHANGED codecVars

Goto(at, to) ==
    /\ pc = at
    /\ pc' = to
    /\ UNCHANGED <<file, rerun, book, active_sheet_index, workbook, sheet_name,
                   range, to_clear, output, result, exit_code>>
    /\ UNCHANGED codecVars

\* Lines 70-78.
MarkerOk ==
    /\ pc = "check_marker"
    /\ MarkerMatches(range[1])
    /\ Goto("check_marker", "check_height")
MarkerMismatch ==
    /\ pc = "check_marker"
    /\ ~MarkerMatches(range[1])
    /\ ReturnNone("check_marker")

\* Lines 80-84.
HeightOk ==
    /\ pc = "check_height"
    /\ HeightEnough(range[1])
    /\ Goto("check_height", "scan")
HeightTooSmall ==
    /\ pc = "check_height"
    /\ ~HeightEnough(range[1])
    /\ ReturnNone("check_height")

\* Lines 86-100.
Scan ==
    /\ pc = "scan"
    /\ to_clear' = CollectToClear(range[1])
    /\ pc' = "clear"
    /\ UNCHANGED <<file, rerun, book, active_sheet_index, workbook, sheet_name,
                   range, output, result, exit_code>>
    /\ UNCHANGED codecVars

\* Lines 109-113.
ApplyClears ==
    /\ pc = "clear"
    /\ ActiveSheet(book[1]) \in 1..Len(book[1].sheets)
    /\ book' = Some(ClearBook(book[1], to_clear))
    /\ pc' = "write"
    /\ UNCHANGED <<file, rerun, active_sheet_index, workbook, sheet_name,
                   range, to_clear, output, result, exit_code>>
    /\ UNCHANGED codecVars

\* Line 109 when the write view has no sheet at its active tab: the process aborts.
ActiveSheetPanics ==
    /\ pc = "clear"
    /\ ActiveSheet(book[1]) \notin 1..Len(book[1].sheets)
    /\ result' = "panic"
    /\ exit_code' = 101
    /\ pc' = "exited"
    /\ UNCHANGED <<file, rerun, book, active_sheet_index, workbook, sheet_name,
                   range, to_clear, output>>
    /\ UNCHANGED codecVars

\* Lines 115-119.
WriteBook ==
    /\ pc = "write"
    /\ output' = Some(WriteXlsx(book[1]))
    /\ result' = "Ok(Some)"
    /\ pc' = "returned"
    /\ UNCHANGED <<file, rerun, book, active_sheet_index, workbook, sheet_name,
                   range, to_clear, exit_code>>
    /\ UNCHANGED codecVars

WriteBookFails == pc = "write" /\ Fail("write", "Err(write)")

\* Lines 122-127 and 138-142.
MainExit ==
    /\ pc = "returned"
    /\ exit_code' = MainExitCode(result)
    /\ pc' = "exited"
    /\ UNCHANGED <<file, rerun, book, active_sheet_index, workbook, sheet_name,
                   range, to_clear, output, result>>
    /\ UNCHANGED codecVars

\* The tool is started again with the file it wrote as its argument.
Rerun ==
    /\ pc = "exited"
    /\ output /= None
    /\ file' = output
    /\ rerun' = TRUE
    /\ pc' = "read_book"
    /\ book' = None
    /\ active_sheet_index' = 0
    /\ workbook' = None
    /\ sheet_name' = None
    /\ range' = None
    /\ to_clear' = <<>>
    /\ output' = None
    /\ result' = "running"
    /\ exit_code' = -1
    /\ UNCHANGED codecVars

Next ==
    \/ NoArgument
    \/ GetArgument
    \/ ReadBook
    \/ ReadBookFails
    \/ OpenWorkbook
    \/ OpenWorkbookFails
    \/ ResolveSheet
    \/ NoWorksheets
    \/ ReadRange
    \/ ReadRangeFails
    \/ MarkerOk
    \/ MarkerMismatch
    \/ HeightOk
    \/ HeightTooSmall
    \/ Scan
    \/ ApplyClears
    \/ ActiveSheetPanics
    \/ WriteBook
    \/ WriteBookFails
    \/ MainExit
    \/ Rerun

Spec == Init /\ [][Next]_vars

-----------------------------------------------------------------------------
(* cell_ref and col_to_name step by step, lines 7-20, on every column and  *)
(* row number of the bounds.                                               *)

InitCodec ==
    /\ RunInit
    /\ c_in \in 1..MaxCol
    /\ c_row \in 1..MaxRowNum
    /\ c_col = c_in
    /\ c_name = <<>>
    /\ c_ref = <<>>
    /\ c_pc = "loop"

\* Lines 11-15, one iteration.
CodecLoop ==
    /\ c_pc = "loop"
    /\ c_col > 0
    /\ c_name' = Append(c_name, NextLetter(c_col))
    /\ c_col' = RestOfCol(c_col)
    /\ UNCHANGED <<c_in, c_row, c_ref, c_pc>>
    /\ UNCHANGED runVars

\* Line 16.
CodecReverse ==
    /\ c_pc = "loop"
    /\ ~(c_col > 0)
    /\ c_name' = Reverse(c_name)
    /\ c_pc' = "format"
    /\ UNCHANGED <<c_in, c_row, c_col, c_ref>>
    /\ UNCHANGED runVars

\* Line 19.
CodecFormat ==
    /\ c_pc = "format"
    /\ c_ref' = c_name \o IntToString(c_row)
    /\ c_pc' = "done"
    /\ UNCHANGED <<c_in, c_row, c_col, c_name>>
    /\ UNCHANGED runVars

NextCodec ==
    \/ CodecLoop
    \/ CodecReverse
    \/ CodecFormat

SpecCodec == InitCodec /\ [][NextCodec]_vars

-----------------------------------------------------------------------------
(* Properties.                                                             *)

\* The run got past the scan of lines 86-100.
Scanned == pc \in {"clear", "write"} \/ result \in {"Ok(Some)", "Err(write)", "panic"}

\* The trimmed normalized text at 0-based (row 2, col 0) of a grid is the marker.
MarkerCellIsMarker(rng) ==
    /\ <<2, 0>> \in DOMAIN rng.cells
    /\ \E i, j \in 1..(Len(datatype_to_string(rng.cells[<<2, 0>>])) + 1) :
          LET t == datatype_to_string(rng.cells[<<2, 0>>])
          IN  /\ SubSeq(t, i, j - 1) = <<31163, 23376, 33394, 35889>>
              /\ \A k \in 1..Len(t) : (k < i \/ k >= j) => t[k] \in WhiteSpace

\* The text contains "(RM)" or "(C)".
HasRMorC(t) ==
    \E i \in 1..Len(t) :
        \/ i + 3 <= Len(t) /\ t[i] = 40 /\ t[i + 1] = 82 /\ t[i + 2] = 77 /\ t[i + 3] = 41
        \/ i + 2 <= Len(t) /\ t[i] = 40 /\ t[i + 1] = 67 /\ t[i + 2] = 41

\* C1: an output file exists only if the trimmed text at (row 2, col 0) of the scanned
\* grid is the marker, the grid has at least 6 rows and no fatal error occurred; in
\* every other run nothing of the write view is saved.
C1_OutputOnlyWhenRuleMatched ==
    output /= None =>
        /\ range /= None
        /\ MarkerCellIsMarker(range[1])
        /\ range[1].height >= 6
        /\ result = "Ok(Some)"

\* A run that ended on a marker mismatch in a grid of 6 rows or more, without output.
C1_Witness ==
    /\ pc = "exited"
    /\ result = "Ok(None)"
    /\ range[1].height >= 6
    /\ ~MarkerCellIsMarker(range[1])
    /\ output = None

\* C2 as stated: in a run without fatal error, a matching marker cell alone means the
\* output file is written.
C2_WrittenWheneverMarkerMatched ==
    (/\ pc = "exited"
     /\ result \notin Errors \cup {"panic"}
     /\ range /= None
     /\ MarkerCellIsMarker(range[1]))
        => (output /= None /\ result = "Ok(Some)")

\* C2, amended: in a run without fatal error, a matching marker cell in a grid of at
\* least 6 rows means the output file is written and its path returned, also when the
\* Clear List is empty; with fewer than 6 rows nothing is written.
C2_WrittenWhenMarkerMatchedAndTallEnough ==
    (/\ pc = "exited"
     /\ result \notin Errors \cup {"panic"}
     /\ range /= None
     /\ MarkerCellIsMarker(range[1]))
        => IF range[1].height >= 6
           THEN output /= None /\ result = "Ok(Some)"
           ELSE output = None /\ result = "Ok(None)"

\* A first run that wrote its output although nothing needed clearing.
C2_Witness ==
    /\ pc = "exited"
    /\ ~rerun
    /\ result = "Ok(Some)"
    /\ to_clear = <<>>
    /\ output /= None

\* The addresses the scan is to find in a grid.
ExpectedAddresses(rng) ==
    { cell_ref(p[2] + 1, p[1] + 1) :
        p \in { q \in (5..(rng.height - 1)) \X (0..(rng.width - 1)) :
                  /\ datatype_to_string(rng.cells[q]) /= <<>>
                  /\ HasRMorC(datatype_to_string(rng.cells[q])) } }

\* The grid of the end-to-end scenario: 7 by 3, "Cl(RM)" at (5,1), "SO4(C)" at (6,2).
IsScenario(rng) ==
    /\ rng.height = 7
    /\ rng.width = 3
    /\ \A p \in DOMAIN rng.cells :
          datatype_to_string(rng.cells[p]) =
              (CASE p = <<2, 0>> -> <<31163, 23376, 33394, 35889, 32>>
                 [] p = <<5, 1>> -> <<67, 108, 40, 82, 77, 41>>
                 [] p = <<6, 2>> -> <<83, 79, 52, 40, 67, 41>>
                 [] OTHER -> <<>>)

\* C3: after the scan the Clear List holds, each once, exactly the addresses of the
\* cells of rows 5.. whose text is non-empty and contains "(RM)" or "(C)"; in the
\* scenario it is ["B6", "C7"].
C3_ClearListIsTheMatches ==
    Scanned =>
        /\ { to_clear[i] : i \in 1..Len(to_clear) } = ExpectedAddresses(range[1])
        /\ \A i, j \in 1..Len(to_clear) : to_clear[i] = to_clear[j] => i = j
        /\ IsScenario(range[1]) => to_clear = << <<66, 54>>, <<67, 55>> >>

\* The scenario scanned: its Clear List is ["B6", "C7"].
C3_Witness ==
    /\ pc = "clear"
    /\ IsScenario(range[1])
    /\ to_clear = << <<66, 54>>, <<67, 55>> >>

\* The sheet names of a file.
NamesOf(f) == [k \in 1..Len(f.sheets) |-> f.sheets[k].name]

\* C4: a written output has the sheets, sizes and active tab of the input; in the
\* active sheet the cells whose address is in the Clear List hold the empty string;
\* every other cell of every sheet holds the value it had in the input.
C4_OutputIsInputButCleared ==
    output /= None =>
        LET in == file[1]
            out == output[1]
        IN  /\ out.active_tab = in.active_tab
            /\ Len(out.sheets) = Len(in.sheets)
            /\ \A k \in 1..Len(in.sheets) :
                  /\ out.sheets[k].name = in.sheets[k].name
                  /\ out.sheets[k].height = in.sheets[k].height
                  /\ out.sheets[k].width = in.sheets[k].width
                  /\ DOMAIN out.sheets[k].cells = DOMAIN in.sheets[k].cells
                  /\ \A p \in DOMAIN in.sheets[k].cells :
                        IF /\ k = in.active_tab + 1
                           /\ \E i \in 1..Len(to_clear) :
                                 to_clear[i] = cell_ref(p[2] + 1, p[1] + 1)
                        THEN datatype_to_string(out.sheets[k].cells[p]) = <<>>
                        ELSE out.sheets[k].cells[p] = in.sheets[k].cells[p]

\* An output of two sheets that differs from its input: cells of the active sheet
\* were cleared.
C4_Witness ==
    /\ output /= None
    /\ ~rerun
    /\ Len(output[1].sheets) = 2
    /\ to_clear /= <<>>
    /\ output[1] /= file[1]

\* C5: once the sheet to scan is resolved, the write view's active tab designates a
\* sheet and that sheet has the resolved name, whatever the active tab index.
C5_BothViewsSameSheet ==
    (sheet_name /= None /\ book /= None) =>
        /\ book[1].active_tab + 1 \in 1..Len(book[1].sheets)
        /\ book[1].sheets[book[1].active_tab + 1].name = sheet_name[1]

\* The run got past the sheet resolution of lines 58-63, or failed there.
Resolved ==
    /\ pc \notin {"start", "read_book", "open_workbook", "resolve_sheet"}
    /\ result \notin {"Ok(())", "Err(read)", "Err(open)"}

\* C6: the resolved name is L[i] when i < len(L), L[0] when i >= len(L) > 0; the run
\* fails with "no worksheets" exactly when L is empty, without scan or output.
C6_SheetResolution ==
    Resolved =>
        LET L == NamesOf(file[1])
            i == file[1].active_tab
        IN  /\ (i < Len(L)) => sheet_name = <<L[i + 1]>>
            /\ (i >= Len(L) /\ Len(L) > 0) => sheet_name = <<L[1]>>
            /\ (result = "Err(no worksheets)") <=> (Len(L) = 0)
            /\ (Len(L) = 0) =>
                  sheet_name = None /\ range = None /\ to_clear = <<>> /\ output = None

\* The fallback taken: an active tab past the last of two sheets, the first resolved.
C6_Witness ==
    /\ Resolved
    /\ Len(file[1].sheets) = 2
    /\ file[1].active_tab = 2
    /\ sheet_name = <<file[1].sheets[1].name>>

\* The run failing for want of a worksheet.
C6_WitnessNoWorksheets ==
    /\ pc = "exited"
    /\ result = "Err(no worksheets)"
    /\ file[1].sheets = <<>>

\* C7: the exit status is non-zero if and only if one of the fatal errors occurred:
\* an open failure of either parse, no worksheets, a sheet-read failure, a write
\* failure.
C7_NonZeroExitIffFatalError ==
    pc = "exited" =>
        ((exit_code /= 0) <=>
            (result \in {"Err(read)", "Err(open)", "Err(no worksheets)", "Err(range)",
                         "Err(write)"}))

\* C9: clearing a cell whose text is already empty changes no cell's text, and the
\* Clear List applied a second time to the write view changes nothing.
C9_ClearingIsIdempotent ==
    (pc \in {"clear", "write"} /\ book[1].active_tab < Len(book[1].sheets)) =>
        LET b0 == ReadXlsx(file[1])
            once == ClearBook(b0, to_clear)
            cells == once.sheets[once.active_tab + 1].cells
        IN  /\ ClearBook(once, to_clear) = once
            /\ pc = "write" => ClearBook(book[1], to_clear) = book[1]
            /\ \A q \in DOMAIN cells :
                  datatype_to_string(cells[q]) = <<>> =>
                      \A r \in DOMAIN cells :
                          datatype_to_string(SetValueEmpty(cells, cell_ref(q[1], q[2]))[r])
                              = datatype_to_string(cells[r])

\* Two cells cleared, about to be written.
C9_Witness ==
    /\ pc = "write"
    /\ Len(to_clear) = 2
    /\ book[1] /= ReadXlsx(file[1])

\* C10: no address of a Clear List is A3 or above row 6; run on its own output the
\* tool finds the marker, clears nothing and, unless a fatal error occurs, writes
\* an output equal to its input.
C10_RerunIsFixpoint ==
    /\ Scanned =>
          \A i \in 1..Len(to_clear) :
              /\ to_clear[i] /= <<65, 51>>
              /\ ParseCellRef(to_clear[i])[2] >= 6
    /\ rerun =>
          /\ result /= "Ok(None)"
          /\ result /= "panic"
          /\ range /= None => MarkerCellIsMarker(range[1])
          /\ to_clear = <<>>
          /\ pc = "exited" =>
                \/ result \in Errors
                \/ result = "Ok(Some)" /\ output = file

\* A second run finished, on the output of a first run that cleared cells.
C10_Witness ==
    /\ rerun
    /\ pc = "exited"
    /\ result = "Ok(Some)"
    /\ output = file
    /\ \E p \in DOMAIN file[1].sheets[1].cells :
          file[1].sheets[1].cells[p] = DString(<<>>)

\* The column names of the bounds.
ColNames == [c \in 1..MaxCol |-> col_to_name(c)]

\* The addresses of the bounds.
CellRefs == [p \in (1..MaxCol) \X (1..MaxRowNum) |-> cell_ref(p[1], p[2])]

\* C8: col_to_name's loop ends (col falls by one at least with every letter pushed);
\* decoding its letters in bijective base 26 gives the column back and no other
\* column has these letters; the address cell_ref returns decodes to its column and
\* row, so that no other column or row gives it; 1 -> A, 26 -> Z, 27 -> AA,
\* 52 -> AZ, 702 -> ZZ.
C8_CodecRoundTrip ==
    /\ c_pc = "loop" => (c_col >= 0 /\ c_col + Len(c_name) <= c_in)
    /\ c_pc \in {"format", "done"} =>
          /\ c_col = 0
          /\ lettersToColumn(c_name) = c_in
          /\ \A c \in 1..MaxCol : ColNames[c] = c_name => c = c_in
          /\ c_in = 1 => c_name = <<65>>
          /\ c_in = 26 => c_name = <<90>>
          /\ c_in = 27 => c_name = <<65, 65>>
          /\ c_in = 52 => c_name = <<65, 90>>
          /\ c_in = 702 => c_name = <<90, 90>>
    /\ c_pc = "done" =>
          /\ ParseCellRef(c_ref) = <<c_in, c_row>>
          /\ \A c \in 1..MaxCol : CellRefs[<<c, c_row>>] = c_ref => c = c_in
          /\ \A r \in 1..MaxRowNum : CellRefs[<<c_in, r>>] = c_ref => r = c_row

\* Column 702, row 11 formatted as "ZZ11".
C8_Witness ==
    /\ c_pc = "done"
    /\ c_in = 702
    /\ c_row = 11
    /\ c_ref = <<90, 90, 49, 49>>

====
